---- MODULE Spec2Model ----
(***************************************************************************)
(* A model of scripts/verify_metrics.py: the comment stripper              *)
(* (remove_comments), the line counter (count_file_loc), the complexity    *)
(* scorer (calculate_complexity), the brace-depth function extractor       *)
(* (analyze_functions) and the driver (main).                              *)
(*                                                                         *)
(* A text is a sequence of one-character strings.  Three specifications    *)
(* share the variables:                                                    *)
(*   Spec      main(): the walk over the files and the exit status;        *)
(*   SpecFile  the body of main's try block for one file, with the loop of *)
(*             analyze_functions taken one line at a time;                 *)
(*   SpecSan   remove_comments applied once and then again.                *)
(***************************************************************************)
EXTENDS Integers, Sequences, FiniteSets, TLC

VARIABLES
    \* main()
    pc, root_ok, has_violations, stdout, exit_status, seen,
    \* one file: the try block of main() and the locals of analyze_functions
    fpc, content, content_no_comments, file_loc, file_violations,
    lines, i, ext,
    \* remove_comments applied to its own output
    resanitized

vars == << pc, root_ok, has_violations, stdout, exit_status, seen,
           fpc, content, content_no_comments, file_loc, file_violations,
           lines, i, ext, resanitized >>

mainVars == << pc, root_ok, has_violations, stdout, exit_status, seen >>
fileVars == << fpc, content, content_no_comments, file_loc, file_violations,
               lines, i, ext >>

-----------------------------------------------------------------------------
(* Thresholds *)

MAX_FILE_LOC == 500
MAX_FUNC_LOC == 50
MAX_COMPLEXITY == 10

-----------------------------------------------------------------------------
(* Characters and small helpers *)

NL == "\n"
BS == "\\"
SQ == "'"
DQ == "\""

\* Python's \w, restricted to ASCII
WordChars ==
    { "a","b","c","d","e","f","g","h","i","j","k","l","m",
      "n","o","p","q","r","s","t","u","v","w","x","y","z",
      "A","B","C","D","E","F","G","H","I","J","K","L","M",
      "N","O","P","Q","R","S","T","U","V","W","X","Y","Z",
      "0","1","2","3","4","5","6","7","8","9","_" }

\* Python's \s and the characters str.strip() removes, restricted to ASCII
WhiteSpace == { " ", "\t", "\n", "\r", "\f" }

Min(S) == CHOOSE x \in S : \A y \in S : x <= y
Max(S) == CHOOSE x \in S : \A y \in S : x >= y

\* does the sequence w occur in t at position p
At(t, p, w) ==
    /\ p >= 1
    /\ p + Len(w) - 1 <= Len(t)
    /\ \A k \in 1..Len(w) : t[p + k - 1] = w[k]

-----------------------------------------------------------------------------
(* remove_comments                                                         *)
(*   //.*?$|/\*.*?\*/|'(?:\\.|[^\\'])*'|"(?:\\.|[^\\"])*"                  *)
(*   with re.DOTALL | re.MULTILINE                                         *)

\* //.*?$ : from the two slashes to the end of the line.  The lazy .*? (which
\* matches newlines too under DOTALL) stops at the first position where $
\* matches: before a newline or at the end of the text.
LineCommentEnd(t, p) ==
    IF ~At(t, p, <<"/", "/">>) THEN 0
    ELSE LET S == { j \in (p + 2)..Len(t) : t[j] = NL }
         IN  IF S = {} THEN Len(t) ELSE Min(S) - 1

\* a block comment matched greedily (.* for .*?): up to the last */
BlockCommentEnd_greedy(t, p) ==
    IF ~At(t, p, <<"/", "*">>) THEN 0
    ELSE LET S == { j \in (p + 2)..(Len(t) - 1) : At(t, j, <<"*", "/">>) }
         IN  IF S = {} THEN 0 ELSE Max(S) + 1

\* /\*.*?\*/ : from the opening to the first */ that starts after it; no
\* match when there is none.
BlockCommentEnd(t, p) ==
    IF ~At(t, p, <<"/", "*">>) THEN 0
    ELSE LET S == { j \in (p + 2)..(Len(t) - 1) : At(t, j, <<"*", "/">>) }
         IN  IF S = {} THEN 0 ELSE Min(S) + 1

\* number of consecutive backslashes immediately before position j, looking
\* back no further than p + 1 (t[p] is the opening quote)
BackslashRun(t, p, j) ==
    j - 1 - Max({ k \in p..(j - 1) : t[k] # BS })

\* q(?:\\.|[^\\q])*q : the body is a sequence of escape pairs and of
\* characters that are neither a backslash nor the quote, so the literal
\* closes at the first quote that is preceded by an even number of
\* backslashes; no match when there is none.
LiteralEnd(t, p, q) ==
    IF ~At(t, p, <<q>>) THEN 0
    ELSE LET S == { j \in (p + 1)..Len(t) :
                      t[j] = q /\ BackslashRun(t, p, j) % 2 = 0 }
         IN  IF S = {} THEN 0 ELSE Min(S)

\* the alternation tried in order at position p: the last position of the
\* match, or 0 when nothing matches at p
MatchEnd(t, p) ==
    IF LineCommentEnd(t, p) # 0 THEN LineCommentEnd(t, p)
    ELSE IF BlockCommentEnd(t, p) # 0 THEN BlockCommentEnd(t, p)
    ELSE IF LiteralEnd(t, p, SQ) # 0 THEN LiteralEnd(t, p, SQ)
    ELSE LiteralEnd(t, p, DQ)

\* a replacer that unwraps a literal instead of returning it whole
replacer_unwrap(s) ==
    IF s[1] = "/" THEN << " " >> ELSE SubSeq(s, 2, Len(s) - 1)

replacer(s) == IF s[1] = "/" THEN << " " >> ELSE s

\* one position of re.sub's left-to-right scan; st.pos is the next position
\* not yet consumed by a match
SubAt(t, st, p) ==
    IF p # st.pos THEN st
    ELSE LET e == MatchEnd(t, p)
         IN  IF e = 0
             THEN [ pos |-> p + 1, out |-> Append(st.out, t[p]) ]
             ELSE [ pos |-> e + 1, out |-> st.out \o replacer(SubSeq(t, p, e)) ]

\* the scan over positions lo..hi, split in halves to keep the evaluation
\* shallow on long texts; the right half is skipped when a match that began
\* in the left half has consumed it
RECURSIVE SubRange(_, _, _, _)
SubRange(t, st, lo, hi) ==
    IF lo > hi THEN st
    ELSE IF lo = hi THEN SubAt(t, st, lo)
    ELSE LET mid == (lo + hi) \div 2
             left == SubRange(t, st, lo, mid)
         IN  IF left.pos > hi THEN left ELSE SubRange(t, left, mid + 1, hi)

remove_comments(text) ==
    SubRange(text, [ pos |-> 1, out |-> << >> ], 1, Len(text)).out

-----------------------------------------------------------------------------
(* Lines: str.split('\n'), "\n".join, str.strip *)

\* text.split('\n') over positions lo..hi, split in halves: the last line of
\* the left half and the first line of the right half are one line
RECURSIVE SplitRange(_, _, _)
SplitRange(t, lo, hi) ==
    IF lo > hi THEN << << >> >>
    ELSE IF lo = hi
         THEN IF t[lo] = NL THEN << << >>, << >> >> ELSE << << t[lo] >> >>
    ELSE LET mid == (lo + hi) \div 2
             L == SplitRange(t, lo, mid)
             R == SplitRange(t, mid + 1, hi)
         IN  SubSeq(L, 1, Len(L) - 1) \o << L[Len(L)] \o R[1] >> \o Tail(R)

Split(text) == SplitRange(text, 1, Len(text))

\* "\n".join(ls[lo..hi])
RECURSIVE JoinRange(_, _, _)
JoinRange(ls, lo, hi) ==
    IF lo > hi THEN << >>
    ELSE IF lo = hi THEN ls[lo]
    ELSE LET mid == (lo + hi) \div 2
         IN  JoinRange(ls, lo, mid) \o << NL >> \o JoinRange(ls, mid + 1, hi)

Join(ls) == JoinRange(ls, 1, Len(ls))

\* line.strip() is the empty string
IsBlank(line) == \A k \in 1..Len(line) : line[k] \in WhiteSpace

\* the loop "for line in lines: if line.strip(): count += 1"
CountNonBlank(ls) == Cardinality({ k \in 1..Len(ls) : ~IsBlank(ls[k]) })

count_file_loc(text) == CountNonBlank(Split(text))

-----------------------------------------------------------------------------
(* calculate_complexity: re.findall counts the non-overlapping matches of  *)
(* each pattern, scanning from the left                                    *)

\* \b at the boundary between positions p - 1 and p
WordBoundary(t, p) ==
    LET before == p > 1 /\ t[p - 1] \in WordChars
        after  == p <= Len(t) /\ t[p] \in WordChars
    IN  before # after

\* matches of \bw\b; two matches of one keyword never overlap
CountWord(t, w) ==
    Cardinality({ p \in 1..Len(t) :
        /\ At(t, p, w)
        /\ WordBoundary(t, p)
        /\ WordBoundary(t, p + Len(w)) })

\* matches of a two-character operator cc: in a run of the character the
\* matches start at the 1st, 3rd, ... position of the run
CountPair(t, c) ==
    Cardinality({ p \in 1..(Len(t) - 1) :
        /\ t[p] = c /\ t[p + 1] = c
        /\ (p - 1 - Max({0} \cup { k \in 1..(p - 1) : t[k] # c })) % 2 = 0 })

CountChar(t, c) == Cardinality({ p \in 1..Len(t) : t[p] = c })

keywords ==
    << << "i","f" >>, << "e","l","s","e"," ","i","f" >>, << "f","o","r" >>,
       << "w","h","i","l","e" >>, << "d","o" >>, << "c","a","s","e" >>,
       << "c","a","t","c","h" >> >>

RECURSIVE SumKeywords(_, _)
SumKeywords(t, k) ==
    IF k = 0 THEN 0 ELSE CountWord(t, keywords[k]) + SumKeywords(t, k - 1)

\* a scorer that counts an "else if" once, not also as an "if"
calculate_complexity_dedup(text) ==
    1 + SumKeywords(text, Len(keywords)) - CountWord(text, keywords[2])
      + CountPair(text, "&") + CountPair(text, "|") + CountChar(text, "?")

calculate_complexity(text) ==
    1 + SumKeywords(text, Len(keywords))
      + CountPair(text, "&") + CountPair(text, "|") + CountChar(text, "?")

-----------------------------------------------------------------------------
(* analyze_functions *)

\* re.sub(q(?:\\.|[^\\q])*q, qq, line): one position of the scan.  Lines
\* hold no newline, so the missing DOTALL makes no difference here.
MaskAt(t, q, st, p) ==
    IF p # st.pos THEN st
    ELSE LET e == LiteralEnd(t, p, q)
         IN  IF e = 0
             THEN [ pos |-> p + 1, out |-> Append(st.out, t[p]) ]
             ELSE [ pos |-> e + 1, out |-> st.out \o << q, q >> ]

RECURSIVE MaskRange(_, _, _, _, _)
MaskRange(t, q, st, lo, hi) ==
    IF lo > hi THEN st
    ELSE IF lo = hi THEN MaskAt(t, q, st, lo)
    ELSE LET mid == (lo + hi) \div 2
             left == MaskRange(t, q, st, lo, mid)
         IN  IF left.pos > hi THEN left
             ELSE MaskRange(t, q, left, mid + 1, hi)

MaskLiterals(t, q) ==
    MaskRange(t, q, [ pos |-> 1, out |-> << >> ], 1, Len(t)).out

\* line_no_strings: single-quoted literals first, then double-quoted ones
\* in the result
line_no_strings(line) == MaskLiterals(MaskLiterals(line, SQ), DQ)

\* the position after the longest run of characters of C that starts at p
RunEnd(l, p, C) ==
    Min({ k \in p..(Len(l) + 1) : k = Len(l) + 1 \/ l[k] \notin C })

TypeChars == WordChars \cup { "<", ">", "?" }

\* \(.*?\)\s*(async\s*)?\{ with the ( at position a
ArgsAndBrace(l, a) ==
    /\ a <= Len(l)
    /\ l[a] = "("
    /\ \E c \in (a + 1)..Len(l) :
         /\ l[c] = ")"
         /\ LET u == RunEnd(l, c + 1, WhiteSpace)
                v == RunEnd(l, u + 5, WhiteSpace)
            IN  \/ At(l, u, << "{" >>)
                \/ At(l, u, << "a","s","y","n","c" >>) /\ At(l, v, << "{" >>)

\* func_def_pattern.search(l):
\*   ^\s*(([\w<>?]+)\s+)?(\w+)\s*\(.*?\)\s*(async\s*)?\{
\* The runs are greedy and giving a character back never helps, so there is
\* at most one way to match up to the parenthesis: with the optional type
\* token (tried first) or without it.  The result is group 3, or the empty
\* sequence when the pattern does not match.
func_def_name(l) ==
    LET s  == RunEnd(l, 1, WhiteSpace)
        \* with the type token: T ws+ N ws* (
        tE == RunEnd(l, s, TypeChars)
        n1 == RunEnd(l, tE, WhiteSpace)
        e1 == RunEnd(l, n1, WordChars)
        a1 == RunEnd(l, e1, WhiteSpace)
        \* without it: N ws* (
        e2 == RunEnd(l, s, WordChars)
        a2 == RunEnd(l, e2, WhiteSpace)
    IN  IF tE > s /\ n1 > tE /\ e1 > n1 /\ ArgsAndBrace(l, a1)
        THEN SubSeq(l, n1, e1 - 1)
        ELSE IF e2 > s /\ ArgsAndBrace(l, a2)
        THEN SubSeq(l, s, e2 - 1)
        ELSE << >>

control_keywords ==
    { << "i","f" >>, << "f","o","r" >>, << "w","h","i","l","e" >>,
      << "s","w","i","t","c","h" >>, << "c","a","t","c","h" >>,
      << "d","o" >> }

\* the f-strings of the violation lines, as records
FuncLocLine(name, start, loc) ==
    [ kind |-> "func_loc", name |-> name, line |-> start + 1,
      value |-> loc, max |-> MAX_FUNC_LOC ]

FuncComplexityLine(name, start, complexity) ==
    [ kind |-> "func_complexity", name |-> name, line |-> start + 1,
      value |-> complexity, max |-> MAX_COMPLEXITY ]

FileLocLine(loc) ==
    [ kind |-> "file_loc", name |-> << >>, line |-> 0,
      value |-> loc, max |-> MAX_FILE_LOC ]

\* the locals of analyze_functions before the loop; regions is a history
\* of the regions that were closed (start and end are 0-based line indices)
ExtInit ==
    [ brace_balance |-> 0, in_function |-> FALSE, func_start_line |-> 0,
      func_content |-> << >>, func_name |-> << "u","n","k","n","o","w","n" >>,
      violations |-> << >>, regions |-> << >> ]

open_braces(line) == CountChar(line_no_strings(line), "{")
close_braces(line) == CountChar(line_no_strings(line), "}")

\* a start test that does not exclude the control keywords
StartsFunction_nokw(st, line) ==
    /\ ~st.in_function
    /\ open_braces(line) > close_braces(line)
    /\ func_def_name(line_no_strings(line)) # << >>

\* a start test that is also made inside a function
StartsFunction_nested(st, line) ==
    /\ open_braces(line) > close_braces(line)
    /\ func_def_name(line_no_strings(line)) # << >>
    /\ func_def_name(line_no_strings(line)) \notin control_keywords

\* a start test with >= for >
StartsFunction_ge(st, line) ==
    /\ ~st.in_function
    /\ open_braces(line) >= close_braces(line)
    /\ func_def_name(line_no_strings(line)) # << >>
    /\ func_def_name(line_no_strings(line)) \notin control_keywords

\* "if not in_function": does this line start a function
StartsFunction(st, line) ==
    /\ ~st.in_function
    /\ open_braces(line) > close_braces(line)
    /\ func_def_name(line_no_strings(line)) # << >>
    /\ func_def_name(line_no_strings(line)) \notin control_keywords

\* the two checks made in the other order
FuncViolations_swapped(name, start, loc, complexity) ==
    (IF complexity > MAX_COMPLEXITY
       THEN << FuncComplexityLine(name, start, complexity) >> ELSE << >>)
    \o
    (IF loc > MAX_FUNC_LOC
       THEN << FuncLocLine(name, start, loc) >> ELSE << >>)

\* the two checks with >= for >
FuncViolations_ge(name, start, loc, complexity) ==
    (IF loc >= MAX_FUNC_LOC
       THEN << FuncLocLine(name, start, loc) >> ELSE << >>)
    \o
    (IF complexity >= MAX_COMPLEXITY
       THEN << FuncComplexityLine(name, start, complexity) >> ELSE << >>)

\* the checks made when a function has ended
FuncViolations(name, start, loc, complexity) ==
    (IF loc > MAX_FUNC_LOC
       THEN << FuncLocLine(name, start, loc) >> ELSE << >>)
    \o
    (IF complexity > MAX_COMPLEXITY
       THEN << FuncComplexityLine(name, start, complexity) >> ELSE << >>)

\* a function end that leaves in_function set
EndFunction_stays(st, idx) ==
    LET loc == CountNonBlank(st.func_content)
        complexity == calculate_complexity(Join(st.func_content))
    IN  [ st EXCEPT
            !.violations = @ \o FuncViolations(st.func_name,
                                   st.func_start_line, loc, complexity),
            !.regions = Append(@,
                [ name |-> st.func_name, start |-> st.func_start_line,
                  end |-> idx, nlines |-> Len(st.func_content),
                  loc |-> loc, complexity |-> complexity ]) ]

\* "if brace_balance == 0": the function ended on line idx
EndFunction(st, idx) ==
    LET loc == CountNonBlank(st.func_content)
        complexity == calculate_complexity(Join(st.func_content))
    IN  [ st EXCEPT
            !.in_function = FALSE,
            !.violations = @ \o FuncViolations(st.func_name,
                                   st.func_start_line, loc, complexity),
            !.regions = Append(@,
                [ name |-> st.func_name, start |-> st.func_start_line,
                  end |-> idx, nlines |-> Len(st.func_content),
                  loc |-> loc, complexity |-> complexity ]) ]

\* a capture that ends the function when the balance is zero or below
Capture_nonpositive(st, line, idx) ==
    LET s2 == [ st EXCEPT
                  !.func_content = Append(@, line),
                  !.brace_balance = @ + open_braces(line) - close_braces(line) ]
    IN  IF s2.brace_balance <= 0 THEN EndFunction(s2, idx) ELSE s2

\* a capture whose balance is kept from going below zero
Capture_clamped(st, line, idx) ==
    LET s2 == [ st EXCEPT
                  !.func_content = Append(@, line),
                  !.brace_balance =
                      Max({ 0, @ + open_braces(line) - close_braces(line) }) ]
    IN  IF s2.brace_balance = 0 THEN EndFunction(s2, idx) ELSE s2

\* "if in_function": the line is part of the function
Capture(st, line, idx) ==
    LET s2 == [ st EXCEPT
                  !.func_content = Append(@, line),
                  !.brace_balance = @ + open_braces(line) - close_braces(line) ]
    IN  IF s2.brace_balance = 0 THEN EndFunction(s2, idx) ELSE s2

\* one iteration of "for i, line in enumerate(lines)"
ExtStep(st, line, idx) ==
    LET s1 == IF StartsFunction(st, line)
              THEN [ st EXCEPT
                       !.in_function = TRUE,
                       !.brace_balance = 0,
                       !.func_start_line = idx,
                       !.func_name = func_def_name(line_no_strings(line)),
                       !.func_content = << >> ]
              ELSE st
    IN  IF s1.in_function THEN Capture(s1, line, idx) ELSE s1

\* the loop over the lines lo..hi (1-based positions of ls; the loop index
\* of the code is the position minus one), split in halves to keep the
\* evaluation shallow; the left half is evaluated before the right half is
\* entered
RECURSIVE ExtRange(_, _, _, _)
ExtRange(ls, st, lo, hi) ==
    IF lo > hi THEN st
    ELSE IF lo = hi THEN ExtStep(st, ls[lo], lo - 1)
    ELSE LET mid == (lo + hi) \div 2
             left == ExtRange(ls, st, lo, mid)
         IN  IF left.in_function \in BOOLEAN
             THEN ExtRange(ls, left, mid + 1, hi) ELSE left

analyze_functions(text) ==
    LET ls == Split(text)
    IN  ExtRange(ls, ExtInit, 1, Len(ls)).violations

-----------------------------------------------------------------------------
(* The try block of main() for one file whose text could be read *)

\* "if file_loc > MAX_FILE_LOC"
FileLocViolations(loc) ==
    IF loc > MAX_FILE_LOC THEN << FileLocLine(loc) >> ELSE << >>

FileViolations(text) ==
    LET clean == remove_comments(text)
    IN  FileLocViolations(count_file_loc(clean)) \o analyze_functions(clean)

-----------------------------------------------------------------------------
(* Values of the variables a specification does not use *)

MainIdle ==
    /\ pc = "idle"
    /\ root_ok = TRUE
    /\ has_violations = FALSE
    /\ stdout = << >>
    /\ exit_status = -1
    /\ seen = << >>

(* Building input files from lines *)

\* n copies of a line
Rep(line, n) == [ k \in 1..n |-> line ]

\* a brace-delimited block: an opening line, n body lines, a closing line
Block(head, body, n) == << head >> \o Rep(body, n) \o << << "}" >> >>

\* ls followed by plain lines up to a total of n lines
Pad(ls, n) == IF Len(ls) >= n THEN ls ELSE ls \o Rep(<< "x" >>, n - Len(ls))

-----------------------------------------------------------------------------
FileIdle ==
    /\ fpc = "idle"
    /\ content = << >>
    /\ content_no_comments = << >>
    /\ resanitized = << >>
    /\ file_loc = 0
    /\ file_violations = << >>
    /\ lines = << >>
    /\ i = 0
    /\ ext = ExtInit

-----------------------------------------------------------------------------
(* Spec: main().  os.walk yields the files one at a time, in any order and *)
(* of any number; a file is named by its position in the walk.  A root     *)
(* that cannot be listed makes os.walk yield nothing (its onerror is None).*)

MaxFiles == 3

NoDetail == [ kind |-> "none", name |-> << >>, line |-> 0, value |-> 0, max |-> 0 ]

\* the lines main() prints
BannerLine == [ tag |-> "analyzing", path |-> 0, detail |-> NoDetail ]
HeaderLine(path) == [ tag |-> "VIOLATION", path |-> path, detail |-> NoDetail ]
DetailLine(path, v) == [ tag |-> "detail", path |-> path, detail |-> v ]
ErrorLine(path) == [ tag |-> "Error processing", path |-> path, detail |-> NoDetail ]
SummaryLine == [ tag |-> "No violations found.", path |-> 0, detail |-> NoDetail ]

\* "print(f"VIOLATION: {filepath}")" and "for v in file_violations: print(v)"
ViolationReport(path, fv) ==
    << HeaderLine(path) >> \o [ k \in 1..Len(fv) |-> DetailLine(path, fv[k]) ]

\* the texts of the .dart files of the walk: a clean file, a function at the
\* complexity threshold, one over it, one over both function thresholds, and
\* a file over the file threshold
WalkContents ==
    { Join(ls) : ls \in
        { << << "x" >> >>,
          Block(<< "f", "(", ")", "{" >>, << "?" >>, MAX_COMPLEXITY - 1),
          Block(<< "f", "(", ")", "{" >>, << "?" >>, MAX_COMPLEXITY),
          Block(<< "f", "(", ")", "{" >>, << "?" >>, MAX_FUNC_LOC - 1),
          Pad(<< >>, MAX_FILE_LOC + 1) } }

Init ==
    /\ pc = "start"
    /\ root_ok \in BOOLEAN
    /\ has_violations = FALSE
    /\ stdout = << >>
    /\ exit_status = -1
    /\ seen = << >>
    /\ FileIdle

\* "has_violations = False" up to the banner
Start ==
    /\ pc = "start"
    /\ stdout' = Append(stdout, BannerLine)
    /\ pc' = "walk"
    /\ UNCHANGED << root_ok, has_violations, exit_status, seen, fileVars,
                    resanitized >>

\* the walk has another file to yield
Walking ==
    /\ pc = "walk"
    /\ root_ok
    /\ Len(seen) < MaxFiles

\* a file whose name does not end with .dart
SkipFile ==
    /\ Walking
    /\ seen' = Append(seen, [ kind |-> "skipped", violations |-> << >> ])
    /\ UNCHANGED << pc, root_ok, has_violations, stdout, exit_status,
                    fileVars, resanitized >>

\* a .dart file whose text c could be read: the try block ran to its end,
\* with has_violations set to the result of every file
ProcessFile_overwrite(c) ==
    LET path == Len(seen) + 1
        fv == FileViolations(c)
    IN  /\ Walking
        /\ stdout' = IF fv # << >> THEN stdout \o ViolationReport(path, fv)
                                   ELSE stdout
        /\ has_violations' = (fv # << >>)
        /\ seen' = Append(seen, [ kind |-> "analyzed", violations |-> fv ])
        /\ UNCHANGED << pc, root_ok, exit_status, fileVars, resanitized >>

\* a .dart file whose text c could be read: the try block ran to its end
ProcessFile(c) ==
    LET path == Len(seen) + 1
        fv == FileViolations(c)
    IN  /\ Walking
        /\ stdout' = IF fv # << >> THEN stdout \o ViolationReport(path, fv)
                                   ELSE stdout
        /\ has_violations' = (has_violations \/ fv # << >>)
        /\ seen' = Append(seen, [ kind |-> "analyzed", violations |-> fv ])
        /\ UNCHANGED << pc, root_ok, exit_status, fileVars, resanitized >>

\* a .dart file whose open or read raised, with no handler around it: the
\* exception ends the process
FailFile_uncaught ==
    /\ Walking
    /\ stdout' = Append(stdout, ErrorLine(Len(seen) + 1))
    /\ seen' = Append(seen, [ kind |-> "failed", violations |-> << >> ])
    /\ pc' = "exited"
    /\ exit_status' = 1
    /\ UNCHANGED << root_ok, has_violations, fileVars, resanitized >>

\* a .dart file whose open or read raised: "except Exception as e"
FailFile ==
    /\ Walking
    /\ stdout' = Append(stdout, ErrorLine(Len(seen) + 1))
    /\ seen' = Append(seen, [ kind |-> "failed", violations |-> << >> ])
    /\ UNCHANGED << pc, root_ok, has_violations, exit_status, fileVars,
                    resanitized >>

\* the walk is over: "if has_violations: sys.exit(1) else: ..."
Finish ==
    /\ pc = "walk"
    /\ pc' = "exited"
    /\ IF has_violations
       THEN exit_status' = 1 /\ stdout' = stdout
       ELSE exit_status' = 0 /\ stdout' = Append(stdout, SummaryLine)
    /\ UNCHANGED << root_ok, has_violations, seen, fileVars, resanitized >>

Next ==
    \/ Start
    \/ SkipFile
    \/ \E c \in WalkContents : ProcessFile(c)
    \/ FailFile
    \/ Finish

Spec == Init /\ [][Next]_vars

Printed(line) == \E k \in 1..Len(stdout) : stdout[k] = line

\* some file of the walk produced a violation line
SomeViolation ==
    \E k \in 1..Len(seen) :
        seen[k].kind = "analyzed" /\ seen[k].violations # << >>

\* C1: the process exits with status 1 iff some file produced a violation
\* line; otherwise it exits with status 0 after printing the summary line,
\* which a run that exits with status 1 never prints
C1_ExitStatus ==
    pc = "exited" =>
        /\ exit_status \in { 0, 1 }
        /\ exit_status = 1 <=> SomeViolation
        /\ exit_status = 0 => stdout[Len(stdout)] = SummaryLine
        /\ exit_status = 1 => ~Printed(SummaryLine)

\* a violating file, then a clean one, an unreadable one, and the exit
C1_Witness ==
    /\ pc = "exited"
    /\ exit_status = 1
    /\ Len(seen) = 3
    /\ seen[1].violations # << >>
    /\ seen[2].kind = "analyzed" /\ seen[2].violations = << >>
    /\ seen[3].kind = "failed"

\* the report of file k is printed, whole and in one piece
Reported(k) ==
    LET r == ViolationReport(k, seen[k].violations)
    IN  \E a \in 1..Len(stdout) : SubSeq(stdout, a, a + Len(r) - 1) = r

\* C2: an unreadable file gets its error line and neither ends the walk nor
\* sets the failing status: the files after it are analyzed and reported, and
\* a run without violations exits with status 0
C2_ErrorsDoNotAbort ==
    /\ \A k \in 1..Len(seen) :
         /\ seen[k].kind = "failed" => Printed(ErrorLine(k))
         /\ (seen[k].kind = "analyzed" /\ seen[k].violations # << >>)
              => Reported(k)
    /\ pc = "exited" =>
         /\ Printed(BannerLine)
         /\ ~SomeViolation => exit_status = 0
    /\ (pc = "walk" /\ ~SomeViolation) => ~has_violations

\* an unreadable file, then a violating file that is reported
C2_Witness ==
    /\ pc = "exited"
    /\ Len(seen) = 2
    /\ seen[1].kind = "failed"
    /\ seen[2].kind = "analyzed"
    /\ seen[2].violations # << >>
    /\ Reported(2)
    /\ exit_status = 1

\* C3: when the root directory cannot be listed the program ends with a
\* non-zero status and without the summary line
C3_MissingRootAborts ==
    (pc = "exited" /\ ~root_ok) =>
        /\ exit_status # 0
        /\ ~Printed(SummaryLine)

-----------------------------------------------------------------------------
(* SpecFile: one readable file through the try block of main(); the loop   *)
(* of analyze_functions takes one line per step                            *)

MaxFileLines == 4

\* the raw lines short files are made of
FileLines ==
    { << "f", "(", ")", "{" >>,             \* a function opens
      << "}" >>,
      << "i", "f", "(", "x", ")", "{" >>,   \* a control-flow construct opens
      << "x" >>,
      << >>,                                \* a blank line
      << "}", "}" >>,
      << "f", "(", ")", "{", "}" >>,        \* a function on one line
      << SQ, "{", SQ >>,                    \* a literal that holds a brace
      << "/", "*" >>,
      << "*", "/" >> }

SmallFiles == UNION { [ 1..n -> FileLines ] : n \in 0..MaxFileLines }

BlockHeads == { << "f", "(", ")", "{" >>, << "i", "f", "(", "x", ")", "{" >> }

\* bodies that put a block just at and just over each function threshold:
\* MAX_FUNC_LOC and MAX_FUNC_LOC + 1 meaningful lines, MAX_COMPLEXITY and
\* MAX_COMPLEXITY + 1 points of complexity, and over both
BlockBodies ==
    { << << "x" >>, MAX_FUNC_LOC - 2 >>,
      << << "x" >>, MAX_FUNC_LOC - 1 >>,
      << << "?" >>, MAX_COMPLEXITY - 1 >>,
      << << "?" >>, MAX_COMPLEXITY >>,
      << << "?" >>, MAX_FUNC_LOC - 1 >> }

FirstBlocks ==
    { << >> } \cup { Block(h, b[1], b[2]) : h \in BlockHeads, b \in BlockBodies }

SecondBlocks ==
    { << >>, Block(<< "g", "(", ")", "{" >>, << "?" >>, MAX_COMPLEXITY) }

\* files at and over the thresholds: up to two blocks, as they are or padded
\* to MAX_FILE_LOC and to MAX_FILE_LOC + 1 meaningful lines
ThresholdFiles ==
    { Pad(a \o b, n) : a \in FirstBlocks, b \in SecondBlocks,
                       n \in { 0, MAX_FILE_LOC, MAX_FILE_LOC + 1 } }

\* one over-complex construct for each control keyword
ControlFiles ==
    { Block(kw \o << "(", "x", ")", "{" >>, << "?" >>, MAX_COMPLEXITY) :
        kw \in control_keywords }

\* files that end inside a function over a threshold, with and without a
\* finished over-complex function before it
UnfinishedFiles ==
    { a \o << << "g", "(", ")", "{" >> >> \o Rep(<< "?" >>, n) :
        a \in { << >>, Block(<< "f", "(", ")", "{" >>, << "?" >>, MAX_COMPLEXITY) },
        n \in { MAX_COMPLEXITY, MAX_FUNC_LOC } }

\* a function declared inside the body of another, small and over-complex
NestedFiles ==
    { << << "f", "(", ")", "{" >> >>
        \o Block(<< "g", "(", ")", "{" >>, << "?" >>, n)
        \o << << "}" >> >> : n \in { 1, MAX_COMPLEXITY } }

\* a file of no lines is the empty text
FileContents ==
    { IF ls = << >> THEN << >> ELSE Join(ls) :
        ls \in SmallFiles \cup ThresholdFiles \cup ControlFiles
                \cup UnfinishedFiles \cup NestedFiles }

InitFile ==
    /\ MainIdle
    /\ fpc = "read"
    /\ content \in FileContents
    /\ content_no_comments = << >>
    /\ resanitized = << >>
    /\ file_loc = 0
    /\ file_violations = << >>
    /\ lines = << >>
    /\ i = 0
    /\ ext = ExtInit

\* an entry of analyze_functions that keeps the locals of the call before
Prepare_keep ==
    /\ fpc = "read"
    /\ content_no_comments' = remove_comments(content)
    /\ file_loc' = count_file_loc(content_no_comments')
    /\ file_violations' = FileLocViolations(file_loc')
    /\ lines' = Split(content_no_comments')
    /\ ext' = ext
    /\ i' = 0
    /\ fpc' = "analyze"
    /\ UNCHANGED << mainVars, content, resanitized >>

\* an entry of analyze_functions that is given the text with its comments
Prepare_raw ==
    /\ fpc = "read"
    /\ content_no_comments' = remove_comments(content)
    /\ file_loc' = count_file_loc(content_no_comments')
    /\ file_violations' = FileLocViolations(file_loc')
    /\ lines' = Split(content)
    /\ ext' = ExtInit
    /\ i' = 0
    /\ fpc' = "analyze"
    /\ UNCHANGED << mainVars, content, resanitized >>

\* from remove_comments to the entry of the loop of analyze_functions
Prepare ==
    /\ fpc = "read"
    /\ content_no_comments' = remove_comments(content)
    /\ file_loc' = count_file_loc(content_no_comments')
    /\ file_violations' = FileLocViolations(file_loc')
    /\ lines' = Split(content_no_comments')
    /\ ext' = ExtInit
    /\ i' = 0
    /\ fpc' = "analyze"
    /\ UNCHANGED << mainVars, content, resanitized >>

\* one iteration of the loop over the lines
AnalyzeLine ==
    /\ fpc = "analyze"
    /\ i < Len(lines)
    /\ ext' = ExtStep(ext, lines[i + 1], i)
    /\ i' = i + 1
    /\ UNCHANGED << mainVars, fpc, content, content_no_comments, resanitized,
                    file_loc, file_violations, lines >>

\* a return that first closes the function the input ended in
Return_flush ==
    /\ fpc = "analyze"
    /\ i = Len(lines)
    /\ file_violations' = file_violations \o
          (IF ext.in_function THEN EndFunction(ext, i - 1).violations
                              ELSE ext.violations)
    /\ fpc' = "done"
    /\ UNCHANGED << mainVars, content, content_no_comments, resanitized,
                    file_loc, lines, i, ext >>

\* "return violations" and "file_violations.extend(func_violations)"
Return ==
    /\ fpc = "analyze"
    /\ i = Len(lines)
    /\ file_violations' = file_violations \o ext.violations
    /\ fpc' = "done"
    /\ UNCHANGED << mainVars, content, content_no_comments, resanitized,
                    file_loc, lines, i, ext >>

NextFile == Prepare \/ AnalyzeLine \/ Return

SpecFile == InitFile /\ [][NextFile]_vars

\* the region a function line belongs to: regions start on distinct lines
RegionOf(v) ==
    CHOOSE r \in 1..Len(ext.regions) : ext.regions[r].start + 1 = v.line

\* b may directly follow a in the report of a file
MayFollow(a, b) ==
    /\ b.kind # "file_loc"
    /\ a.kind # "file_loc" =>
         \/ RegionOf(a) < RegionOf(b)
         \/ /\ RegionOf(a) = RegionOf(b)
            /\ a.kind = "func_loc"
            /\ b.kind = "func_complexity"

\* C4: in the violation lines of a file the file line comes first, the
\* function lines follow in the order of their regions, and the LOC line of a
\* function comes directly before its complexity line
C4_ViolationOrder ==
    fpc = "done" =>
        \A p \in 1..(Len(file_violations) - 1) :
            MayFollow(file_violations[p], file_violations[p + 1])

Kinds(fv) == [ p \in 1..Len(fv) |-> fv[p].kind ]

C4_Witness ==
    /\ fpc = "done"
    /\ Kinds(file_violations) =
         << "file_loc", "func_loc", "func_complexity", "func_complexity" >>

\* the meaningful lines of a text, counted on its characters: the positions
\* that hold the first non-blank character of their line
MeaningfulLines(t) ==
    Cardinality({ p \in 1..Len(t) :
        /\ t[p] \notin WhiteSpace
        /\ LET b == Max({0} \cup { k \in 1..(p - 1) : t[k] = NL })
           IN  \A k \in (b + 1)..(p - 1) : t[k] \in WhiteSpace })

\* the lines of region r, taken from the stripped text
RegionLines(r) == SubSeq(lines, r.start + 1, r.end + 1)

\* how many of the violation lines are the line of this kind for region r
LinesFor(fv, r, kind) ==
    Cardinality({ p \in 1..Len(fv) :
        fv[p].kind = kind /\ fv[p].line = r.start + 1 /\ fv[p].name = r.name })

\* C5: the violation lines of a file are one file line iff the file has more
\* than 500 meaningful lines, and for every region one LOC line iff it has
\* more than 50 meaningful lines and one complexity line iff it scores more
\* than 10; there is no other line
C5_StrictThresholds ==
    fpc = "done" =>
        LET fv == file_violations
            rs == ext.regions
        IN  /\ Cardinality({ p \in 1..Len(fv) : fv[p].kind = "file_loc" })
                 = (IF MeaningfulLines(content_no_comments) > 500 THEN 1 ELSE 0)
            /\ \A k \in 1..Len(rs) :
                 /\ LinesFor(fv, rs[k], "func_loc")
                      = (IF MeaningfulLines(Join(RegionLines(rs[k]))) > 50
                           THEN 1 ELSE 0)
                 /\ LinesFor(fv, rs[k], "func_complexity")
                      = (IF calculate_complexity(Join(RegionLines(rs[k]))) > 10
                           THEN 1 ELSE 0)
            /\ \A p \in 1..Len(fv) :
                 fv[p].kind # "file_loc" =>
                    \E k \in 1..Len(rs) :
                       LinesFor(<< fv[p] >>, rs[k], fv[p].kind) = 1

\* a file of exactly 500 meaningful lines with a region over both thresholds
\* and a region over the complexity threshold alone
C5_Witness ==
    /\ fpc = "done"
    /\ file_loc = 500
    /\ Len(ext.regions) = 2
    /\ ext.regions[1].loc = 51
    /\ ext.regions[2].loc <= 50
    /\ Kinds(file_violations) =
         << "func_loc", "func_complexity", "func_complexity" >>

\* C6: the regions are contiguous ranges of lines, in file order, and each
\* starts after the end of the one before
C6_RegionsDisjoint ==
    LET rs == ext.regions
    IN  /\ \A k \in 1..Len(rs) :
             /\ 0 <= rs[k].start
             /\ rs[k].start <= rs[k].end
             /\ rs[k].end < Len(lines)
             /\ rs[k].nlines = rs[k].end - rs[k].start + 1
             /\ k > 1 => rs[k].start > rs[k - 1].end
        \* the accumulated body is the range of lines of the open region, or
        \* of the region closed last
        /\ ext.in_function =>
             ext.func_content = SubSeq(lines, ext.func_start_line + 1, i)
        /\ (~ext.in_function /\ rs # << >>) =>
             ext.func_content = RegionLines(rs[Len(rs)])

\* two regions, the second starting on the line after the first
C6_Witness ==
    /\ fpc = "done"
    /\ Len(ext.regions) = 2
    /\ ext.regions[2].start = ext.regions[1].end + 1

\* the reserved control-flow keywords
ReservedKeywords ==
    { << "i","f" >>, << "f","o","r" >>, << "w","h","i","l","e" >>,
      << "s","w","i","t","c","h" >>, << "c","a","t","c","h" >>,
      << "d","o" >> }

NetOpening(line) == open_braces(line) > close_braces(line)

\* a net-opening line whose declaration identifier is a reserved keyword
ControlOpening(line) ==
    /\ NetOpening(line)
    /\ func_def_name(line_no_strings(line)) \in ReservedKeywords

\* C7: a net-opening line whose identifier is a reserved keyword never moves
\* the extractor from scanning to capturing, and a file whose net-opening
\* lines are all of that kind has no region and no function violation
C7_ControlFlowNotCaptured ==
    /\ [][ ( /\ fpc = "analyze"
             /\ i < Len(lines)
             /\ ~ext.in_function
             /\ ControlOpening(lines[i + 1]) )
           => ~ext'.in_function ]_vars
    /\ [] ( \/ /\ ext.regions = << >>
                /\ ext.violations = << >>
                /\ \A p \in 1..Len(file_violations) :
                     file_violations[p].kind = "file_loc"
             \* or some net-opening line is not a control-flow construct
             \/ \E k \in 1..Len(lines) :
                  NetOpening(lines[k]) /\ ~ControlOpening(lines[k]) )

\* an over-complex switch construct went through without a region
C7_Witness ==
    /\ fpc = "done"
    /\ Len(lines) = MAX_COMPLEXITY + 2
    /\ func_def_name(lines[1]) = << "s","w","i","t","c","h" >>
    /\ calculate_complexity(content_no_comments) > MAX_COMPLEXITY
    /\ ext.regions = << >>
    /\ file_violations = << >>

-----------------------------------------------------------------------------
(* SpecSan: remove_comments on every short text over the characters the    *)
(* pattern distinguishes, applied once and then to its own output          *)

MaxTextLen == 6

SanAlphabet == { "/", "*", SQ, DQ, BS, NL, "a" }

SanTexts == UNION { [ 1..n -> SanAlphabet ] : n \in 0..MaxTextLen }

InitSan ==
    /\ MainIdle
    /\ fpc = "raw"
    /\ content \in SanTexts
    /\ content_no_comments = << >>
    /\ resanitized = << >>
    /\ file_loc = 0
    /\ file_violations = << >>
    /\ lines = << >>
    /\ i = 0
    /\ ext = ExtInit

Sanitize ==
    /\ fpc = "raw"
    /\ content_no_comments' = remove_comments(content)
    /\ fpc' = "clean"
    /\ UNCHANGED << mainVars, content, resanitized, file_loc,
                    file_violations, lines, i, ext >>

Resanitize ==
    /\ fpc = "clean"
    /\ resanitized' = remove_comments(content_no_comments)
    /\ fpc' = "again"
    /\ UNCHANGED << mainVars, content, content_no_comments, file_loc,
                    file_violations, lines, i, ext >>

NextSan == Sanitize \/ Resanitize

SpecSan == InitSan /\ [][NextSan]_vars

\* C8: comment stripping is idempotent: stripping the stripped text again
\* gives the stripped text
C8_Idempotent ==
    fpc = "again" => resanitized = content_no_comments

C8_Witness ==
    /\ fpc = "again"
    /\ content = << "/", "/", NL, SQ, BS, SQ >>
    /\ content_no_comments = << " ", NL, SQ, BS, SQ >>
    /\ resanitized = content_no_comments

\* C9: the stripped text has as many newline-delimited lines as the raw text
C9_SameLineCount ==
    fpc \in { "clean", "again" } =>
        Len(Split(content_no_comments)) = Len(Split(content))

Suffix(t, p) == SubSeq(t, p, Len(t))

\* the first position of t that can begin a comment or a literal
FirstSpecial(t) ==
    Min({ p \in 1..(Len(t) + 1) : p = Len(t) + 1 \/ t[p] \in { "/", SQ, DQ } })

\* positions a..(e - 1) of t are a literal body: escape pairs and characters
\* that are neither a backslash nor the quote q
RECURSIVE LiteralBody(_, _, _, _)
LiteralBody(t, q, a, e) ==
    \/ a = e
    \/ a < e /\ t[a] \notin { BS, q } /\ LiteralBody(t, q, a + 1, e)
    \/ a + 1 < e /\ t[a] = BS /\ LiteralBody(t, q, a + 2, e)

\* a terminated literal that begins at the first special position is copied
\* whole, comment markers included, and the scan resumes after it
LiteralCopied(t, r) ==
    LET p == FirstSpecial(t)
    IN  \A e \in (p + 1)..Len(t) :
          (t[p] \in { SQ, DQ } /\ t[e] = t[p] /\ LiteralBody(t, t[p], p + 1, e))
          => r = SubSeq(t, 1, e) \o remove_comments(Suffix(t, e + 1))

\* a block comment that begins at the first special position ends at the
\* first */ after its opening, whatever quotes or openings it holds, and
\* leaves one space
BlockStripped(t, r) ==
    LET p == FirstSpecial(t)
    IN  \A j \in (p + 2)..(Len(t) - 1) :
          ( /\ At(t, p, << "/", "*" >>)
            /\ At(t, j, << "*", "/" >>)
            /\ \A k \in (p + 2)..(j - 1) : ~At(t, k, << "*", "/" >>) )
          => r = SubSeq(t, 1, p - 1) \o << " " >>
                   \o remove_comments(Suffix(t, j + 2))

\* a line comment that begins at the first special position runs to the end
\* of its line, whatever quotes it holds, and leaves one space
LineStripped(t, r) ==
    LET p == FirstSpecial(t)
        n == Min({ k \in (p + 2)..(Len(t) + 1) : k = Len(t) + 1 \/ t[k] = NL })
    IN  At(t, p, << "/", "/" >>)
        => r = SubSeq(t, 1, p - 1) \o << " " >> \o remove_comments(Suffix(t, n))

\* C10: the first comment or literal of a text is committed to: a terminated
\* literal is copied unchanged, a comment becomes exactly one space (a block
\* comment ending at the first */), and the rest of the text is stripped as
\* a text of its own
C10_FirstMatchCommitted ==
    fpc = "clean" =>
        /\ LiteralCopied(content, content_no_comments)
        /\ BlockStripped(content, content_no_comments)
        /\ LineStripped(content, content_no_comments)

\* a comment opening inside a literal is kept, the comment after the literal
\* becomes one space
C10_Witness ==
    /\ fpc = "clean"
    /\ content = << DQ, "/", "*", DQ, "/", "/" >>
    /\ content_no_comments = << DQ, "/", "*", DQ, " " >>

-----------------------------------------------------------------------------
(* SpecScore: the try block of main() on files that hold one function whose *)
(* body is a line of branch tokens, or a number of "if" lines around the    *)
(* complexity threshold                                                     *)

MaxTokens == 3

ScoreTokens ==
    { << "i","f" >>, << "e","l","s","e" >>, << " " >>, << "f","o","r" >>,
      << "w","h","i","l","e" >>, << "d","o" >>, << "c","a","s","e" >>,
      << "c","a","t","c","h" >>, << "&" >>, << "|" >>, << "?" >>, << "x" >> }

\* the tokens of ts written one after the other
RECURSIVE Flatten(_)
Flatten(ts) == IF ts = << >> THEN << >> ELSE Head(ts) \o Flatten(Tail(ts))

ScoreBodies ==
    { Flatten(ts) : ts \in UNION { [ 1..n -> ScoreTokens ] : n \in 0..MaxTokens } }

ScoreContents ==
    { Join(Block(<< "f", "(", ")", "{" >>, b, 1)) : b \in ScoreBodies }
    \cup
    { Join(Block(<< "f", "(", ")", "{" >>, << "i","f" >>, n)) :
        n \in (MAX_COMPLEXITY - 1)..(MAX_COMPLEXITY + 1) }

InitScore ==
    /\ MainIdle
    /\ fpc = "read"
    /\ content \in ScoreContents
    /\ content_no_comments = << >>
    /\ resanitized = << >>
    /\ file_loc = 0
    /\ file_violations = << >>
    /\ lines = << >>
    /\ i = 0
    /\ ext = ExtInit

SpecScore == InitScore /\ [][NextFile]_vars

IsWordAt(t, p) == p >= 1 /\ p <= Len(t) /\ t[p] \in WordChars

\* w is in t at position p, as a whole word when whole is set
OccursAt(t, w, whole, p) ==
    /\ At(t, p, w)
    /\ whole => /\ IsWordAt(t, p - 1) # IsWordAt(t, p)
                /\ IsWordAt(t, p + Len(w) - 1) # IsWordAt(t, p + Len(w))

\* the occurrences of w in t from position p on, found from left to right,
\* each search resuming after the occurrence found before
RECURSIVE Occurrences(_, _, _, _)
Occurrences(t, w, whole, p) ==
    IF p > Len(t) THEN 0
    ELSE IF OccursAt(t, w, whole, p)
         THEN 1 + Occurrences(t, w, whole, p + Len(w))
         ELSE Occurrences(t, w, whole, p + 1)

IfCount(t) == Occurrences(t, << "i","f" >>, TRUE, 1)
ElseIfCount(t) == Occurrences(t, << "e","l","s","e"," ","i","f" >>, TRUE, 1)

\* the occurrences of the branch constructs other than "if"
OtherCount(t) ==
    ElseIfCount(t)
    + Occurrences(t, << "f","o","r" >>, TRUE, 1)
    + Occurrences(t, << "w","h","i","l","e" >>, TRUE, 1)
    + Occurrences(t, << "d","o" >>, TRUE, 1)
    + Occurrences(t, << "c","a","s","e" >>, TRUE, 1)
    + Occurrences(t, << "c","a","t","c","h" >>, TRUE, 1)
    + Occurrences(t, << "&","&" >>, FALSE, 1)
    + Occurrences(t, << "|","|" >>, FALSE, 1)
    + Occurrences(t, << "?" >>, FALSE, 1)

\* C11: the score of a function is 1 plus the occurrences of the seven
\* keywords and the three operators, each counted on its own, so that an
\* "else if" counts twice; a function with n "if" and nothing else scores
\* n + 1, and with 11 "if" and at most 50 meaningful lines it gets exactly one
\* violation line, the complexity line with the score 12
C11_ComplexityScore ==
    fpc = "done" =>
        \A k \in 1..Len(ext.regions) :
            LET r == ext.regions[k]
                t == Join(RegionLines(r))
            IN  /\ r.complexity = 1 + IfCount(t) + OtherCount(t)
                /\ IfCount(t) >= ElseIfCount(t)
                /\ OtherCount(t) = 0 => r.complexity = IfCount(t) + 1
                /\ (IfCount(t) = 11 /\ OtherCount(t) = 0 /\ r.loc <= 50) =>
                     file_violations =
                        << FuncComplexityLine(r.name, r.start, 12) >>

\* a function of eleven "if" lines was reported with the score 12
C11_Witness ==
    /\ fpc = "done"
    /\ Len(lines) = 13
    /\ Len(ext.regions) = 1
    /\ IfCount(content_no_comments) = 11
    /\ OtherCount(content_no_comments) = 0
    /\ Len(file_violations) = 1
    /\ file_violations[1].kind = "func_complexity"
    /\ file_violations[1].value = 12

-----------------------------------------------------------------------------
(* SpecMask: the try block of main() on files of two lines, a function      *)
(* opening and a short line of quotes, braces and backslashes               *)

MaxLineLen == 5

MaskAlphabet == { SQ, DQ, "{", "}", BS, "x" }

MaskLines == UNION { [ 1..n -> MaskAlphabet ] : n \in 0..MaxLineLen }

MaskContents == { Join(<< << "f", "(", ")", "{" >>, l >>) : l \in MaskLines }

InitMask ==
    /\ MainIdle
    /\ fpc = "read"
    /\ content \in MaskContents
    /\ content_no_comments = << >>
    /\ resanitized = << >>
    /\ file_loc = 0
    /\ file_violations = << >>
    /\ lines = << >>
    /\ i = 0
    /\ ext = ExtInit

SpecMask == InitMask /\ [][NextFile]_vars

\* the closing quote of the literal that opens at position p of the line,
\* or 0 when the quote at p opens no literal that closes on the line
LiteralClose(t, p) ==
    LET S == { e \in (p + 1)..Len(t) :
                 t[e] = t[p] /\ LiteralBody(t, t[p], p + 1, e) }
    IN  IF S = {} THEN 0 ELSE Min(S)

\* the occurrences of c from position p on that lie outside the literals of
\* the line, the line read from left to right
RECURSIVE OutsideLiterals(_, _, _)
OutsideLiterals(t, c, p) ==
    IF p > Len(t) THEN 0
    ELSE IF t[p] \in { SQ, DQ } /\ LiteralClose(t, p) # 0
         THEN OutsideLiterals(t, c, LiteralClose(t, p) + 1)
         ELSE (IF t[p] = c THEN 1 ELSE 0) + OutsideLiterals(t, c, p + 1)

\* the line is one literal and nothing else
OnlyLiteral(t) ==
    t # << >> /\ t[1] \in { SQ, DQ } /\ LiteralClose(t, 1) = Len(t)

\* C12: the braces of a line that lie inside a literal are not counted and
\* the braces outside the literals all are: after the line that follows the
\* opening of a function the depth is 1 plus the open braces minus the close
\* braces outside the literals of the line, and a line that is only a
\* literal leaves the depth and the capturing state as they were
C12_LiteralMasking ==
    (fpc = "analyze" /\ i = 2) =>
        /\ ext.brace_balance =
              1 + OutsideLiterals(lines[2], "{", 1)
                - OutsideLiterals(lines[2], "}", 1)
        /\ OnlyLiteral(lines[2]) =>
              ext.brace_balance = 1 /\ ext.in_function

-----------------------------------------------------------------------------
(* SpecFile: the function extractor at the end of the input and inside a   *)
(* function                                                                *)

IsFuncLine(v) == v.kind # "file_loc"

\* C13: when the input ends inside a function, that function gets no
\* violation line whatever its size and score, the analysis returns, and the
\* function lines returned are those of the functions that ended before it:
\* the lines the text before the unfinished function gets on its own
C13_UnfinishedDropped ==
    (fpc = "done" /\ ext.in_function) =>
        /\ \A p \in 1..Len(file_violations) :
             IsFuncLine(file_violations[p]) =>
                /\ file_violations[p].line <= ext.func_start_line
                /\ \E k \in 1..Len(ext.regions) :
                     ext.regions[k].start + 1 = file_violations[p].line
        /\ SelectSeq(file_violations, IsFuncLine) =
             analyze_functions(Join(SubSeq(lines, 1, ext.func_start_line)))

\* the input ended inside an over-complex function that follows a reported
\* one
C13_Witness ==
    /\ fpc = "done"
    /\ ext.in_function
    /\ ext.func_name = << "g" >>
    /\ calculate_complexity(Join(ext.func_content)) > MAX_COMPLEXITY
    /\ CountNonBlank(ext.func_content) > MAX_FUNC_LOC
    /\ Len(ext.regions) = 1
    /\ Kinds(file_violations) = << "func_complexity" >>
    /\ file_violations[1].name = << "f" >>

\* the open braces minus the close braces of the lines lo..hi of ls, after
\* the masking of the literals
RECURSIVE NetDepth(_, _, _)
NetDepth(ls, lo, hi) ==
    IF lo > hi THEN 0
    ELSE IF lo = hi THEN open_braces(ls[lo]) - close_braces(ls[lo])
    ELSE LET mid == (lo + hi) \div 2
         IN  NetDepth(ls, lo, mid) + NetDepth(ls, mid + 1, hi)

\* C14: over the lines of every region the open braces and the close braces
\* are equally many, and the last line of the region is the first line, from
\* its start line on, at which the depth counted from the start line is zero
C14_RegionNetZero ==
    fpc = "done" =>
        \A k \in 1..Len(ext.regions) :
            LET a == ext.regions[k].start + 1
                b == ext.regions[k].end + 1
            IN  /\ NetDepth(lines, a, b) = 0
                /\ \A e \in a..(b - 1) : NetDepth(lines, a, e) # 0

\* a region of four lines with a nested block
C14_Witness ==
    /\ fpc = "done"
    /\ Len(ext.regions) = 1
    /\ ext.regions[1].start = 0
    /\ ext.regions[1].end = 3
    /\ NetDepth(lines, 1, 2) = 2
    /\ NetDepth(lines, 1, 4) = 0

\* C15: every region is properly balanced: counted from its start line, the
\* depth is at least 1 after every line of the region but the last, so that
\* no prefix of a region has more close braces than open braces
C15_RegionProperlyBalanced ==
    fpc = "done" =>
        \A k \in 1..Len(ext.regions) :
            LET a == ext.regions[k].start + 1
                b == ext.regions[k].end + 1
            IN  \A e \in a..(b - 1) : NetDepth(lines, a, e) >= 1

\* the line looks like the declaration of a function
LooksLikeFunction(line) ==
    /\ NetOpening(line)
    /\ func_def_name(line_no_strings(line)) # << >>
    /\ func_def_name(line_no_strings(line)) \notin ReservedKeywords

\* C16: a line read inside a function, whatever it looks like, is appended
\* to the body of that function and leaves its name and start line as they
\* are; the only region it can complete is that function, so a declaration
\* inside a body is never a region of its own, and the open function lies
\* after every region emitted before
C16_NoNestedStart ==
    /\ [][ (fpc = "analyze" /\ i < Len(lines) /\ ext.in_function) =>
             /\ ext'.func_name = ext.func_name
             /\ ext'.func_start_line = ext.func_start_line
             /\ ext'.func_content = Append(ext.func_content, lines[i + 1])
             /\ \/ ext'.in_function /\ ext'.regions = ext.regions
                \/ /\ ~ext'.in_function
                   /\ Len(ext'.regions) = Len(ext.regions) + 1
                   /\ SubSeq(ext'.regions, 1, Len(ext.regions)) = ext.regions
                   /\ ext'.regions[Len(ext'.regions)].name = ext.func_name
                   /\ ext'.regions[Len(ext'.regions)].start
                        = ext.func_start_line
                   /\ ext'.regions[Len(ext'.regions)].end = i ]_vars
    /\ [] ( ext.in_function =>
              \A k \in 1..Len(ext.regions) :
                 ext.regions[k].end < ext.func_start_line )

\* an over-complex function g declared inside f was reported as part of f
C16_Witness ==
    /\ fpc = "done"
    /\ Len(lines) = MAX_COMPLEXITY + 4
    /\ LooksLikeFunction(lines[2])
    /\ func_def_name(line_no_strings(lines[2])) = << "g" >>
    /\ Len(ext.regions) = 1
    /\ ext.regions[1].name = << "f" >>
    /\ ext.regions[1].start = 0
    /\ ext.regions[1].end = Len(lines) - 1
    /\ Kinds(file_violations) = << "func_complexity" >>
    /\ file_violations[1].name = << "f" >>

\* C17 as stated: a file whose open braces and close braces differ in
\* number leaves the extractor inside a function at the end of the input
C17_UnbalancedEndsCapturing ==
    (fpc = "done" /\ NetDepth(lines, 1, Len(lines)) # 0) => ext.in_function

\* line s (a position of lines) lies in a region
InRegion(s) ==
    \E k \in 1..Len(ext.regions) :
        ext.regions[k].start + 1 <= s /\ s <= ext.regions[k].end + 1

\* the depth counted from line s is not zero after any line up to the end
NeverCloses(s) ==
    \A e \in s..Len(lines) : NetDepth(lines, s, e) # 0

\* C17, amended: outside a function a line that looks like a function
\* declaration starts one; inside a function a line after which the depth
\* counted from the start line is not zero leaves the extractor inside it;
\* so a function that was started and whose braces never bring the depth
\* back to zero leaves the extractor inside a function at the end of the
\* input
C17_OpenFunctionStaysOpen ==
    /\ [][ ( /\ fpc = "analyze" /\ i < Len(lines)
             /\ ~ext.in_function
             /\ LooksLikeFunction(lines[i + 1]) )
           => (ext'.in_function /\ ext'.func_start_line = i) ]_vars
    /\ [][ ( /\ fpc = "analyze" /\ i < Len(lines)
             /\ ext.in_function
             /\ NetDepth(lines, ext.func_start_line + 1, i + 1) # 0 )
           => ( /\ ext'.in_function
                /\ ext'.func_start_line = ext.func_start_line
                /\ ext'.regions = ext.regions ) ]_vars
    /\ [] ( fpc = "done" =>
              \A s \in 1..Len(lines) :
                 ( /\ LooksLikeFunction(lines[s])
                   /\ ~InRegion(s)
                   /\ NeverCloses(s) )
                 => (ext.in_function /\ ext.func_start_line < s) )

\* the input ended inside a function whose depth went below zero
C17_Witness ==
    /\ fpc = "done"
    /\ ext.in_function
    /\ ext.func_start_line = 0
    /\ ext.brace_balance < 0
    /\ NetDepth(lines, 1, Len(lines)) < 0
    /\ NeverCloses(1)
    /\ ext.regions = << >>

-----------------------------------------------------------------------------
(* SpecWalk: main() over several files, each file taken through the try    *)
(* block step by step; the variables of a file keep the values the file    *)
(* before left in them until the code assigns them again                   *)

\* a file that ends inside an over-complex function, an over-complex
\* function, a stray closing brace and a plain line
WalkFiles ==
    { Join(ls) : ls \in
        { << << "g", "(", ")", "{" >> >> \o Rep(<< "?" >>, MAX_COMPLEXITY),
          Block(<< "f", "(", ")", "{" >>, << "?" >>, MAX_COMPLEXITY),
          << << "}" >> >>,
          << << "x" >> >> } }

\* "with open(filepath) as f: content = f.read()" succeeded
OpenFile(c) ==
    /\ Walking
    /\ fpc \in { "idle", "closed" }
    /\ content' = c
    /\ fpc' = "read"
    /\ UNCHANGED << mainVars, content_no_comments, resanitized, file_loc,
                    file_violations, lines, i, ext >>

\* "if file_violations: print(...); has_violations = True"
ReportFile ==
    /\ fpc = "done"
    /\ stdout' = IF file_violations # << >>
                 THEN stdout \o ViolationReport(Len(seen) + 1, file_violations)
                 ELSE stdout
    /\ has_violations' = (has_violations \/ file_violations # << >>)
    /\ seen' = Append(seen, [ kind |-> "analyzed", content |-> content,
                              violations |-> file_violations ])
    /\ fpc' = "closed"
    /\ UNCHANGED << pc, root_ok, exit_status, content, content_no_comments,
                    resanitized, file_loc, file_violations, lines, i, ext >>

\* the open or the read of the next file raised
WalkFail ==
    /\ fpc \in { "idle", "closed" }
    /\ FailFile

\* the walk is over
WalkFinish ==
    /\ fpc \in { "idle", "closed" }
    /\ Finish

NextWalk ==
    \/ Start
    \/ \E c \in WalkFiles : OpenFile(c)
    \/ Prepare
    \/ AnalyzeLine
    \/ Return
    \/ ReportFile
    \/ WalkFail
    \/ WalkFinish

SpecWalk == Init /\ [][NextWalk]_vars

\* C18: the extractor enters the loop of every file outside a function, with
\* depth 0, an empty body, the name "unknown" and no violation, whatever the
\* file before left behind, and the violation lines of every file of the
\* walk are those its text gets when it is analyzed alone
C18_FilesIndependent ==
    /\ (fpc = "analyze" /\ i = 0) =>
          /\ ~ext.in_function
          /\ ext.brace_balance = 0
          /\ ext.func_content = << >>
          /\ ext.func_name = << "u","n","k","n","o","w","n" >>
          /\ ext.violations = << >>
    /\ \A k \in 1..Len(seen) :
          seen[k].kind = "analyzed" =>
             seen[k].violations = FileViolations(seen[k].content)

\* after a file that ended inside a function and a file that could not be
\* read, an over-complex function is reported as it is when analyzed alone
C18_Witness ==
    /\ Len(seen) = 3
    /\ seen[1].kind = "analyzed"
    /\ seen[1].content[1] = "g"
    /\ seen[1].violations = << >>
    /\ seen[2].kind = "failed"
    /\ seen[3].kind = "analyzed"
    /\ seen[3].content[1] = "f"
    /\ Kinds(seen[3].violations) = << "func_complexity" >>
    /\ seen[3].violations[1].name = << "f" >>
    /\ ext.regions # << >>

-----------------------------------------------------------------------------
(* SpecFile: the size of the regions *)

\* C19: every region has at least two lines and at least two meaningful
\* lines; after the start line of a function the depth is at least 1; and a
\* line read outside a function that has no more open braces than close
\* braces, such as a function written on one line, starts no function
C19_RegionAtLeastTwoLines ==
    /\ [] ( \A k \in 1..Len(ext.regions) :
               /\ ext.regions[k].end > ext.regions[k].start
               /\ ext.regions[k].nlines >= 2
               /\ ext.regions[k].loc >= 2 )
    /\ [] ( fpc = "done" =>
               \A k \in 1..Len(ext.regions) :
                  MeaningfulLines(Join(RegionLines(ext.regions[k]))) >= 2 )
    /\ [] ( (ext.in_function /\ i = ext.func_start_line + 1) =>
               ext.brace_balance >= 1 )
    /\ [][ ( /\ fpc = "analyze" /\ i < Len(lines)
             /\ ~ext.in_function
             /\ open_braces(lines[i + 1]) <= close_braces(lines[i + 1]) )
           => (~ext'.in_function /\ ext'.regions = ext.regions) ]_vars

\* a function written on one line was passed over and the two-line function
\* after it is a region
C19_Witness ==
    /\ fpc = "done"
    /\ Len(lines) = 3
    /\ func_def_name(line_no_strings(lines[1])) = << "f" >>
    /\ open_braces(lines[1]) = 1
    /\ close_braces(lines[1]) = 1
    /\ Len(ext.regions) = 1
    /\ ext.regions[1].start = 1
    /\ ext.regions[1].nlines = 2
    /\ ext.regions[1].loc = 2

\* the meaningful lines of the first k regions together
RECURSIVE SumLoc(_, _)
SumLoc(rs, k) == IF k = 0 THEN 0 ELSE rs[k].loc + SumLoc(rs, k - 1)

\* C20: the meaningful lines of the regions of a file are together no more
\* than the meaningful lines of the file, each region's count being that of
\* its lines in the stripped text; so a file of at most 50 meaningful lines
\* has no function LOC violation line
C20_RegionLinesWithinFile ==
    /\ fpc \in { "analyze", "done" } =>
          SumLoc(ext.regions, Len(ext.regions)) <= file_loc
    /\ fpc = "done" =>
          /\ file_loc = MeaningfulLines(content_no_comments)
          /\ \A k \in 1..Len(ext.regions) :
                ext.regions[k].loc
                  = MeaningfulLines(Join(RegionLines(ext.regions[k])))
          /\ file_loc <= 50 =>
                \A p \in 1..Len(file_violations) :
                   file_violations[p].kind # "func_loc"

\* a file of 50 meaningful lines that is one function of 50 meaningful lines
C20_Witness ==
    /\ fpc = "done"
    /\ file_loc = 50
    /\ Len(ext.regions) = 1
    /\ ext.regions[1].loc = 50
    /\ file_violations = << >>

====
